---- MODULE Spec2Model ----
(***************************************************************************)
(* Forex publish/subscribe arbitrage detector.                             *)
(*                                                                         *)
(*   bellman_ford.py  BellmanFordGraph: a dict-of-dicts directed graph     *)
(*                    whose edges carry (weight, time), and a tolerance    *)
(*                    aware Bellman-Ford.                                  *)
(*   subscriber.py    Subscriber: receives quote datagrams, applies them   *)
(*                    to the graph, runs shortest_paths from USD, rebuilds *)
(*                    an arbitrage sequence, evicts stale quotes.          *)
(*                                                                         *)
(* Units.  Weights are -log10(rate) in millionths (fixed point, so that    *)
(* TOLERANCE = 1e-6 is 1).  Times are half seconds (IN_FORCE_TIME = 1.5 s  *)
(* is 3), counted from the instant the subscriber is constructed.          *)
(*                                                                         *)
(* Python dicts keep insertion order and the code iterates them, so a dict *)
(* is a sequence of <<key, value>> items.                                  *)
(***************************************************************************)
EXTENDS Integers, Sequences, FiniteSets, TLC

VARIABLES
    graph,          \* BellmanFordGraph.graph: items <<u, items <<v, <<weight, time>>>>>>
    market_times,   \* Subscriber.market_times: items <<<<c1, c2>>, quote_time>>
    resubscribe,    \* Subscriber.resubscribe
    now,            \* the wall clock (datetime.now() / time.time())
    pc,             \* position of the subscriber in run / listen_for_quotes
    message,        \* the datagram recv returned, as its quotes
    start_time,     \* start_time of listen_for_quotes (when the datagram came in)
    result,         \* what the last shortest_paths / process_quote call produced
    steps,          \* the steps the loop has performed for the current datagram
    received        \* number of datagrams received

vars == <<graph, market_times, resubscribe, now, pc, message, start_time,
          result, steps, received>>

----------------------------------------------------------------------------
(* Bounds of the model *)

MaxEdges == 4        \* SpecBF: most directed edges the graph holds
MaxBatches == 2      \* Spec: most datagrams received
MaxQuotes == 2       \* Spec: most quotes in one datagram

----------------------------------------------------------------------------
(* Program constants *)

WEIGHT_IDX == 1          \* bellman_ford.py: WEIGHT_IDX = 0 (TLA+ tuples start at 1)
TIME_IDX == 2            \* bellman_ford.py: TIME_IDX = 1
Inf == 1000000000        \* float('inf'): above every finite distance of the model
IN_FORCE_TIME == 3       \* 1.5 s
MESSAGE_TIMEOUT == 120   \* 60 s
TOLERANCE == 1           \* 1e-6
MY_CURRENCY == "USD"
None == "None"
NoEdge == <<>>           \* shortest_paths' negative_cycle = None

Max(a, b) == IF a >= b THEN a ELSE b
Abs(a) == IF a >= 0 THEN a ELSE -a

\* x in s, for a Python list s
InSeq(x, s) == \E i \in DOMAIN s : s[i] = x

----------------------------------------------------------------------------
(* Python dict, in insertion order *)

DictKeys(d) == {d[i][1] : i \in DOMAIN d}

DictHas(d, k) == \E i \in DOMAIN d : d[i][1] = k

\* d[k] (the caller has checked, or raises KeyError itself)
DictGet(d, k) == d[CHOOSE i \in DOMAIN d : d[i][1] = k][2]

\* d[k] = v: overwrite in place, or append a new key
DictSet(d, k, v) ==
    IF DictHas(d, k)
    THEN [i \in DOMAIN d |-> IF d[i][1] = k THEN <<k, v>> ELSE d[i]]
    ELSE Append(d, <<k, v>>)

\* del d[k]
DictDel(d, k) ==
    LET Keep(item) == item[1] # k
    IN  SelectSeq(d, Keep)

----------------------------------------------------------------------------
(* BellmanFordGraph *)

EmptyGraph == <<>>

\* add_edge(from_vertex, to_vertex, weight, time)
add_edge_from_vertex_only(g, from_vertex, to_vertex, weight, time) ==
    LET g1 == IF ~DictHas(g, from_vertex) THEN DictSet(g, from_vertex, <<>>) ELSE g
    IN  DictSet(g1, from_vertex,
                DictSet(DictGet(g1, from_vertex), to_vertex, <<weight, time>>))
add_edge_keep_first(g, from_vertex, to_vertex, weight, time) ==
    LET g1 == IF ~DictHas(g, from_vertex) THEN DictSet(g, from_vertex, <<>>) ELSE g
        g2 == IF ~DictHas(g1, to_vertex) THEN DictSet(g1, to_vertex, <<>>) ELSE g1
    IN  IF DictHas(DictGet(g2, from_vertex), to_vertex) THEN g2
        ELSE DictSet(g2, from_vertex,
                     DictSet(DictGet(g2, from_vertex), to_vertex, <<weight, time>>))
add_edge(g, from_vertex, to_vertex, weight, time) ==
    LET g1 == IF ~DictHas(g, from_vertex) THEN DictSet(g, from_vertex, <<>>) ELSE g
        g2 == IF ~DictHas(g1, to_vertex) THEN DictSet(g1, to_vertex, <<>>) ELSE g1
    IN  DictSet(g2, from_vertex,
                DictSet(DictGet(g2, from_vertex), to_vertex, <<weight, time>>))

\* del self.graph[from_vertex][to_vertex] raises KeyError
remove_edge_raises(g, from_vertex, to_vertex) ==
    \/ ~DictHas(g, from_vertex)
    \/ ~DictHas(DictGet(g, from_vertex), to_vertex)

\* remove_edge(from_vertex, to_vertex), when it does not raise
remove_edge(g, from_vertex, to_vertex) ==
    DictSet(g, from_vertex, DictDel(DictGet(g, from_vertex), to_vertex))

\* has_edge(from_vertex, to_vertex)
has_edge(g, from_vertex, to_vertex) ==
    IF ~DictHas(g, from_vertex) \/ ~DictHas(g, to_vertex)
    THEN FALSE
    ELSE DictHas(DictGet(g, from_vertex), to_vertex)

\* get_edge_weight(from_vertex, to_vertex), when the edge is there
get_edge_weight(g, from_vertex, to_vertex) ==
    DictGet(DictGet(g, from_vertex), to_vertex)[WEIGHT_IDX]

\* The (u, v, weight) triples in the order of
\*   for u, edges in self.graph.items(): for v, edge_data in edges.items()
RECURSIVE EdgeItemsFrom(_, _)
EdgeItemsFrom(g, i) ==
    IF i > Len(g) THEN <<>>
    ELSE [j \in DOMAIN g[i][2] |->
             <<g[i][1], g[i][2][j][1], g[i][2][j][2][WEIGHT_IDX]>>]
         \o EdgeItemsFrom(g, i + 1)

EdgeItems(g) == EdgeItemsFrom(g, 1)

NumEdges(g) == Len(EdgeItems(g))

\* float addition with float('inf')
FAdd(a, b) == IF a = Inf THEN Inf ELSE a + b

\* can_relax(relaxed_dist, orig_dist, tolerance)
can_relax_nonstrict(relaxed_dist, orig_dist, tolerance) ==
    FAdd(relaxed_dist, tolerance) <= orig_dist
can_relax(relaxed_dist, orig_dist, tolerance) ==
    FAdd(relaxed_dist, tolerance) < orig_dist

\* One scan of every edge from position i on, relaxing in place
RECURSIVE RelaxScan_predecessor_not_set(_, _, _, _)
RelaxScan_predecessor_not_set(edges, i, dp, tolerance) ==
    IF i > Len(edges) THEN dp
    ELSE LET u == edges[i][1]
             v == edges[i][2]
             relaxed_dist == FAdd(dp.distance[u], edges[i][3])
         IN  IF can_relax(relaxed_dist, dp.distance[v], tolerance)
             THEN RelaxScan_predecessor_not_set(edges, i + 1,
                            [distance |-> [dp.distance EXCEPT ![v] = relaxed_dist],
                             predecessor |-> dp.predecessor],
                            tolerance)
             ELSE RelaxScan_predecessor_not_set(edges, i + 1, dp, tolerance)
RECURSIVE RelaxScan(_, _, _, _)
RelaxScan(edges, i, dp, tolerance) ==
    IF i > Len(edges) THEN dp
    ELSE LET u == edges[i][1]
             v == edges[i][2]
             relaxed_dist == FAdd(dp.distance[u], edges[i][3])
         IN  IF can_relax(relaxed_dist, dp.distance[v], tolerance)
             THEN RelaxScan(edges, i + 1,
                            [distance |-> [dp.distance EXCEPT ![v] = relaxed_dist],
                             predecessor |-> [dp.predecessor EXCEPT ![v] = u]],
                            tolerance)
             ELSE RelaxScan(edges, i + 1, dp, tolerance)

\* for i in range(n): one full scan each
RECURSIVE RelaxPasses(_, _, _, _)
RelaxPasses(edges, n, dp, tolerance) ==
    IF n <= 0 THEN dp
    ELSE RelaxPasses(edges, n - 1, RelaxScan(edges, 1, dp, tolerance), tolerance)

\* Negative cycle detection: the first edge of the scan that can still relax
NegativeScan_first_edge_only(edges, i, distance, tolerance) ==
    IF i > Len(edges) THEN NoEdge
    ELSE IF can_relax(FAdd(distance[edges[i][1]], edges[i][3]),
                      distance[edges[i][2]], tolerance)
         THEN <<edges[i][1], edges[i][2]>>
         ELSE NoEdge
RECURSIVE NegativeScan(_, _, _, _)
NegativeScan(edges, i, distance, tolerance) ==
    IF i > Len(edges) THEN NoEdge
    ELSE IF can_relax(FAdd(distance[edges[i][1]], edges[i][3]),
                      distance[edges[i][2]], tolerance)
         THEN <<edges[i][1], edges[i][2]>>
         ELSE NegativeScan(edges, i + 1, distance, tolerance)

\* Number of relaxation passes: range(len(self.graph) - 1)
NumPasses_one_short(g) == Len(g) - 2
NumPasses(g) == Len(g) - 1

\* shortest_paths(start_vertex, tolerance): distance, predecessor, negative_cycle
shortest_paths(g, start_vertex, tolerance) ==
    LET distance0 == [v \in DictKeys(g) \cup {start_vertex} |->
                         IF v = start_vertex THEN 0 ELSE Inf]
        predecessor0 == [v \in DictKeys(g) |-> None]
        edges == EdgeItems(g)
        dp == RelaxPasses(edges, NumPasses(g),
                          [distance |-> distance0, predecessor |-> predecessor0],
                          tolerance)
    IN  [distance |-> dp.distance,
         predecessor |-> dp.predecessor,
         negative_cycle |-> NegativeScan(edges, 1, dp.distance, tolerance)]

\* time_diff > time_limit
exceeds_time_limit_or_equal(time_diff, time_limit) == time_diff >= time_limit
exceeds_time_limit(time_diff, time_limit) == time_diff > time_limit

\* The first loop of remove_stale_edges from vertex item i on: the entries
\* ((u, v), time_diff) of the stale edges, in iteration order
RECURSIVE StaleEdgeItemsFrom(_, _, _, _)
StaleEdgeItemsFrom(g, i, time_to_compare, time_limit) ==
    IF i > Len(g) THEN <<>>
    ELSE LET u == g[i][1]
             edges == g[i][2]
             Stale(item) ==
                 exceeds_time_limit(time_to_compare - item[2][TIME_IDX], time_limit)
             Entry(item) == <<<<u, item[1]>>, time_to_compare - item[2][TIME_IDX]>>
             stale == SelectSeq(edges, Stale)
         IN  [j \in DOMAIN stale |-> Entry(stale[j])]
             \o StaleEdgeItemsFrom(g, i + 1, time_to_compare, time_limit)

\* for (u, v), _ in remove_list: self.remove_edge(u, v)
RECURSIVE RemoveEdges(_, _, _)
RemoveEdges(g, remove_list, i) ==
    IF i > Len(remove_list) THEN g
    ELSE RemoveEdges(remove_edge(g, remove_list[i][1][1], remove_list[i][1][2]),
                     remove_list, i + 1)

\* list.remove(elem): drop the first element equal to elem
RECURSIVE ListRemove(_, _)
ListRemove(list, elem) ==
    IF list = <<>> THEN <<>>
    ELSE IF Head(list) = elem THEN Tail(list)
    ELSE <<Head(list)>> \o ListRemove(Tail(list), elem)

\* remove_duplicates(remove_list): the for loop reads position k of the list
\* it is shrinking, so the element that slides into a freed position is skipped
RECURSIVE remove_duplicates(_, _)
remove_duplicates(remove_list, k) ==
    IF k > Len(remove_list) THEN remove_list
    ELSE LET elem == remove_list[k]
             reverse == <<<<elem[1][2], elem[1][1]>>, elem[2]>>
         IN  IF InSeq(reverse, remove_list)
             THEN remove_duplicates(ListRemove(remove_list, elem), k + 1)
             ELSE remove_duplicates(remove_list, k + 1)

\* remove_stale_edges(time_to_compare, time_limit): the new graph and the
\* returned list
remove_stale_edges(g, time_to_compare, time_limit) ==
    LET remove_list == StaleEdgeItemsFrom(g, 1, time_to_compare, time_limit)
    IN  [graph |-> RemoveEdges(g, remove_list, 1),
         remove_list |-> remove_duplicates(remove_list, 1)]

----------------------------------------------------------------------------
(* Reference notions, stated on the edge set alone (no iteration order) *)

Vertices(g) == DictKeys(g)

IsEdge(g, u, v) ==
    \E i \in DOMAIN g : g[i][1] = u /\ \E j \in DOMAIN g[i][2] : g[i][2][j][1] = v

Weight(g, u, v) == DictGet(DictGet(g, u), v)[WEIGHT_IDX]

\* Sequences of k distinct vertices
DistinctSeqs(V, k) ==
    {s \in [1..k -> V] : \A i, j \in 1..k : i # j => s[i] # s[j]}

RECURSIVE SumFrom(_, _)
SumFrom(ws, i) == IF i > Len(ws) THEN 0 ELSE ws[i] + SumFrom(ws, i + 1)

\* s is a path of g: every consecutive pair is an edge
IsPath(g, s) == \A i \in 1..(Len(s) - 1) : IsEdge(g, s[i], s[i + 1])

PathWeight(g, s) == SumFrom([i \in 1..(Len(s) - 1) |-> Weight(g, s[i], s[i + 1])], 1)

\* s read as a closed loop: the last vertex leads back to the first
IsCycle(g, s) == IsPath(g, s) /\ IsEdge(g, s[Len(s)], s[1])

CycleWeight(g, s) == PathWeight(g, s) + Weight(g, s[Len(s)], s[1])

\* The simple paths of g that start at `from`
SimplePathsFrom(g, from) ==
    {s \in UNION {DistinctSeqs(Vertices(g) \cup {from}, k) :
                      k \in 1..Cardinality(Vertices(g) \cup {from})} :
        s[1] = from /\ IsPath(g, s)}

ReachableFrom(g, from) == {s[Len(s)] : s \in SimplePathsFrom(g, from)}

NegativeCycles(g) ==
    {s \in UNION {DistinctSeqs(Vertices(g), k) : k \in 1..Cardinality(Vertices(g))} :
        IsCycle(g, s) /\ CycleWeight(g, s) < 0}

NegativeCycleReachable(g, from) ==
    LET reachable == ReachableFrom(g, from)
    IN  \E s \in NegativeCycles(g) : s[1] \in reachable

\* The least weight of a path from `from` to each vertex (Inf when there is
\* none); well defined when no negative cycle is reachable
TrueDistances(g, from) ==
    LET paths == SimplePathsFrom(g, from)
        weighted == {<<s[Len(s)], PathWeight(g, s)>> : s \in paths}
    IN  [v \in Vertices(g) \cup {from} |->
            LET ws == {x[2] : x \in {y \in weighted : y[1] = v}}
            IN  IF ws = {} THEN Inf ELSE CHOOSE w \in ws : \A x \in ws : w <= x]

----------------------------------------------------------------------------
(* SpecBF: the graph store and shortest_paths on their own.  Any graph of  *)
(* at most MaxEdges edges over three vertices, in any insertion order, is  *)
(* built by add_edge / remove_edge; shortest_paths is then called once     *)
(* from USD (the start is fixed: the construction is symmetric in vertex   *)
(* names).  shortest_paths reads weights only, so every edge is stamped at *)
(* time 0.                                                                 *)

MaxTolerance == 1

BFVertices == {"USD", "EUR", "GBP"}
BFWeights == {-1, 1, 2}
Tolerances == 0..MaxTolerance

NoResult == [kind |-> "none"]

InitBF ==
    /\ graph = EmptyGraph
    /\ market_times = <<>>
    /\ resubscribe = TRUE
    /\ now = 0
    /\ pc = "graph"
    /\ message = <<>>
    /\ start_time = 0
    /\ result = NoResult
    /\ steps = <<>>
    /\ received = 0

BFAddEdge ==
    \E u \in BFVertices, v \in BFVertices, w \in BFWeights :
        /\ result = NoResult
        /\ u # v
        /\ has_edge(graph, u, v) \/ NumEdges(graph) < MaxEdges
        /\ graph' = add_edge(graph, u, v, w, now)
        /\ result' = NoResult
        /\ UNCHANGED <<market_times, resubscribe, now, pc, message, start_time,
                       steps, received>>

BFRemoveEdge ==
    \E u \in BFVertices, v \in BFVertices :
        /\ result = NoResult
        /\ ~remove_edge_raises(graph, u, v)
        /\ graph' = remove_edge(graph, u, v)
        /\ result' = NoResult
        /\ UNCHANGED <<market_times, resubscribe, now, pc, message, start_time,
                       steps, received>>

BFShortestPaths ==
    \E tolerance \in Tolerances :
        /\ result = NoResult
        /\ result' = [kind |-> "paths", tolerance |-> tolerance]
                        @@ shortest_paths(graph, MY_CURRENCY, tolerance)
        /\ UNCHANGED <<graph, market_times, resubscribe, now, pc, message,
                       start_time, steps, received>>

NextBF == BFAddEdge \/ BFRemoveEdge \/ BFShortestPaths

SpecBF == InitBF /\ [][NextBF]_vars

----------------------------------------------------------------------------
(* SpecStore: the graph store on its own, under any sequence of add_edge,  *)
(* remove_edge and remove_stale_edges over three vertices.  The caller     *)
(* supplies the times: edges are stamped at StoreTimes and the eviction    *)
(* compares against a time up to one tick later.  result holds the         *)
(* arguments of the last call and what it returned.                        *)

MaxStoreEdges == 2   \* SpecStore: most directed edges the graph holds

StoreWeights == {1, 2}
StoreTimes == {0, 1}
CompareTimes == {0, 1, 2}
TimeLimits == {0, 1}

InitStore ==
    /\ graph = EmptyGraph
    /\ market_times = <<>>
    /\ resubscribe = TRUE
    /\ now = 0
    /\ pc = "store"
    /\ message = <<>>
    /\ start_time = 0
    /\ result = NoResult
    /\ steps = <<>>
    /\ received = 0

StoreAddEdge ==
    \E u \in BFVertices, v \in BFVertices, w \in StoreWeights, t \in StoreTimes :
        /\ u # v
        /\ has_edge(graph, u, v) \/ NumEdges(graph) < MaxStoreEdges
        /\ graph' = add_edge(graph, u, v, w, t)
        /\ result' = [kind |-> "add_edge", from_vertex |-> u, to_vertex |-> v,
                      weight |-> w, time |-> t,
                      had_edge |-> has_edge(graph, u, v)]
        /\ UNCHANGED <<market_times, resubscribe, now, pc, message, start_time,
                       steps, received>>

StoreRemoveEdge ==
    \E u \in BFVertices, v \in BFVertices :
        /\ ~remove_edge_raises(graph, u, v)
        /\ graph' = remove_edge(graph, u, v)
        /\ result' = [kind |-> "remove_edge", from_vertex |-> u, to_vertex |-> v]
        /\ UNCHANGED <<market_times, resubscribe, now, pc, message, start_time,
                       steps, received>>

StoreRemoveStaleEdges ==
    \E time_to_compare \in CompareTimes, time_limit \in TimeLimits :
        LET r == remove_stale_edges(graph, time_to_compare, time_limit)
        IN  /\ graph' = r.graph
            /\ result' = [kind |-> "remove_stale_edges",
                          time_to_compare |-> time_to_compare,
                          time_limit |-> time_limit,
                          remove_list |-> r.remove_list]
            /\ UNCHANGED <<market_times, resubscribe, now, pc, message, start_time,
                           steps, received>>

NextStore == StoreAddEdge \/ StoreRemoveEdge \/ StoreRemoveStaleEdges

SpecStore == InitStore /\ [][NextStore]_vars

----------------------------------------------------------------------------
(* Subscriber *)

\* math.isclose(start_time, quote_time): relative tolerance 1e-9 of epoch
\* seconds of about 1.6e9, that is 1.6 s, three ticks
CLOSE_TICKS == 3

IsClose(a, b) == Abs(a - b) <= CLOSE_TICKS

\* Prices are in hundredths; -1 * math.log10(rate) in millionths
NegLog10(price) ==
    CASE price = 50 -> 301030
      [] price = 90 -> 45757
      [] price = 100 -> 0
      [] price = 120 -> -79181
      [] price = 200 -> -301030

\* add_exchange_rates(currency_1, currency_2, rate, time)
add_exchange_rates_forward_only(g, currency_1, currency_2, rate, time) ==
    add_edge(g, currency_1, currency_2, NegLog10(rate), time)
add_exchange_rates(g, currency_1, currency_2, rate, time) ==
    LET neg_log_rate == NegLog10(rate)
    IN  add_edge(add_edge(g, currency_1, currency_2, neg_log_rate, time),
                 currency_2, currency_1, -1 * neg_log_rate, time)

\* The for loop of process_quote over quote_list, from quote i on;
\* st = [graph, market_times]
RECURSIVE ApplyQuotes(_, _, _, _)
ApplyQuotes(quote_list, i, st, recv_time) ==
    IF i > Len(quote_list) THEN st
    ELSE LET quote == quote_list[i]
             quote_time == quote.timestamp
         IN  IF IsClose(recv_time, quote_time)
             THEN ApplyQuotes(quote_list, i + 1,
                     [market_times |-> DictSet(st.market_times, quote.cross, quote_time),
                      graph |-> add_exchange_rates(st.graph, quote.cross[1],
                                                   quote.cross[2], quote.price,
                                                   quote_time)],
                     recv_time)
             ELSE ApplyQuotes(quote_list, i + 1, st, recv_time)

\* conversions.reverse()
Reverse_not_reversed(s) == s
Reverse(s) == [i \in DOMAIN s |-> s[Len(s) + 1 - i]]

\* The inner while of build_arbitrage_sequence:
\*   while not has_edge(start, currency): conversions.pop(); currency = conversions[-1]
PopUntilEdge_no_pop(g, start_currency, conversions, currency) ==
    [error |-> "", conversions |-> conversions]
RECURSIVE PopUntilEdge(_, _, _, _)
PopUntilEdge(g, start_currency, conversions, currency) ==
    IF has_edge(g, start_currency, currency)
    THEN [error |-> "", conversions |-> conversions]
    ELSE LET popped == SubSeq(conversions, 1, Len(conversions) - 1)
         IN  IF popped = <<>>
             THEN [error |-> "IndexError", conversions |-> popped]
             ELSE PopUntilEdge(g, start_currency, popped, popped[Len(popped)])

\* The outer while of build_arbitrage_sequence; fuel counts its iterations
RECURSIVE BacktrackLoop(_, _, _, _, _, _, _)
BacktrackLoop(g, pred, start_currency, currency, conversions, fallback, fuel) ==
    IF start_currency = currency
    THEN [error |-> "", conversions |-> Reverse(conversions), fallback |-> fallback]
    ELSE IF fuel = 0
    THEN [error |-> "NoTermination", conversions |-> conversions, fallback |-> fallback]
    ELSE IF currency \notin DOMAIN pred
    THEN [error |-> "KeyError", conversions |-> conversions, fallback |-> fallback]
    ELSE IF InSeq(pred[currency], conversions)
    THEN LET popped == PopUntilEdge(g, start_currency, conversions, currency)
         IN  IF popped.error # ""
             THEN [error |-> popped.error, conversions |-> popped.conversions,
                   fallback |-> TRUE]
             ELSE BacktrackLoop(g, pred, start_currency, start_currency,
                                Append(popped.conversions, start_currency),
                                TRUE, fuel - 1)
    ELSE BacktrackLoop(g, pred, start_currency, pred[currency],
                       Append(conversions, pred[currency]), fallback, fuel - 1)

\* build_arbitrage_sequence(pred, start_currency)
build_arbitrage_sequence(g, pred, start_currency) ==
    IF start_currency \notin DOMAIN pred
    THEN [error |-> "KeyError", conversions |-> <<>>, fallback |-> FALSE]
    ELSE BacktrackLoop(g, pred, start_currency, pred[start_currency],
                       <<pred[start_currency]>>, FALSE,
                       Cardinality(DOMAIN pred) + 2)

\* print_arbitrage_sequence(conversions): get_edge_weight raises KeyError on a
\* pair that is no edge; otherwise the trades compound to
\* start_amount * 10 ** (-total), total the sum of the weights around the loop
print_arbitrage_sequence(g, conversions) ==
    LET n == Len(conversions)
        to(i) == conversions[(i % n) + 1]
    IN  IF \E i \in 1..n : ~has_edge(g, conversions[i], to(i))
        THEN [error |-> "KeyError", total |-> 0]
        ELSE [error |-> "",
              total |-> SumFrom([i \in 1..n |->
                                    get_edge_weight(g, conversions[i], to(i))], 1)]

\* process_quote(forex_bytes, start_time): the new graph and registry, and
\* what the call computed and printed
process_quote(g, mt, quote_list, recv_time) ==
    LET st == ApplyQuotes(quote_list, 1, [graph |-> g, market_times |-> mt], recv_time)
        sp == shortest_paths(st.graph, MY_CURRENCY, TOLERANCE)
        seq == IF sp.negative_cycle # NoEdge
               THEN build_arbitrage_sequence(st.graph, sp.predecessor, MY_CURRENCY)
               ELSE [error |-> "", conversions |-> <<>>, fallback |-> FALSE]
        printed == IF sp.negative_cycle # NoEdge /\ seq.error = ""
                   THEN print_arbitrage_sequence(st.graph, seq.conversions)
                   ELSE [error |-> "", total |-> 0]
    IN  [graph |-> st.graph,
         market_times |-> st.market_times,
         result |-> [kind |-> "paths", tolerance |-> TOLERANCE] @@ sp @@
                    [conversions |-> seq.conversions,
                     fallback |-> seq.fallback,
                     total |-> printed.total,
                     error |-> IF seq.error # "" THEN seq.error ELSE printed.error]]

\* The first loop of remove_stale_quotes from registry item i on;
\* st = [graph, remove_list, error]
RECURSIVE StaleScan_one_direction(_, _, _, _)
StaleScan_one_direction(mt, i, st, clock) ==
    IF i > Len(mt) THEN st
    ELSE LET market == mt[i][1]
             time_diff == clock - mt[i][2]
         IN  IF time_diff > IN_FORCE_TIME
             THEN IF remove_edge_raises(st.graph, market[1], market[2])
                  THEN [st EXCEPT !.error = "KeyError"]
                  ELSE StaleScan_one_direction(mt, i + 1,
                           [st EXCEPT
                               !.graph = remove_edge(st.graph, market[1], market[2]),
                               !.remove_list = Append(@, market)],
                           clock)
             ELSE StaleScan_one_direction(mt, i + 1, st, clock)
RECURSIVE StaleScan(_, _, _, _)
StaleScan(mt, i, st, clock) ==
    IF i > Len(mt) THEN st
    ELSE LET market == mt[i][1]
             time_diff == clock - mt[i][2]
         IN  IF time_diff > IN_FORCE_TIME
             THEN IF remove_edge_raises(st.graph, market[1], market[2])
                  THEN [st EXCEPT !.error = "KeyError"]
                  ELSE LET g1 == remove_edge(st.graph, market[1], market[2])
                       IN  IF remove_edge_raises(g1, market[2], market[1])
                           THEN [st EXCEPT !.graph = g1, !.error = "KeyError"]
                           ELSE StaleScan(mt, i + 1,
                                    [st EXCEPT
                                        !.graph = remove_edge(g1, market[2], market[1]),
                                        !.remove_list = Append(@, market)],
                                    clock)
             ELSE StaleScan(mt, i + 1, st, clock)

\* for market in remove_list: del self.market_times[market]
RECURSIVE DeleteMarkets(_, _, _)
DeleteMarkets(mt, remove_list, i) ==
    IF i > Len(remove_list) THEN mt
    ELSE DeleteMarkets(DictDel(mt, remove_list[i]), remove_list, i + 1)

\* remove_stale_quotes(): the registry is only touched when the scan did not raise
remove_stale_quotes(g, mt, clock) ==
    LET st == StaleScan(mt, 1, [graph |-> g, remove_list |-> <<>>, error |-> ""], clock)
    IN  [graph |-> st.graph,
         market_times |-> IF st.error = "" THEN DeleteMarkets(mt, st.remove_list, 1)
                          ELSE mt,
         remove_list |-> st.remove_list,
         error |-> st.error]

----------------------------------------------------------------------------
(* Spec: the subscriber's run loop.  The provider publishes the crosses of *)
(* Markets at the prices of Prices; the quotes of a datagram are stamped    *)
(* when it leaves the provider, a lag of Lags ticks before it is received; *)
(* recv returns after a wait of Waits ticks.                               *)

Markets == {<<"USD", "EUR">>, <<"EUR", "USD">>, <<"USD", "GBP">>, <<"EUR", "GBP">>,
            <<"GBP", "JPY">>, <<"JPY", "EUR">>}
Prices == {90, 120}
Lags == {0, 4}
Waits == {0, 4}

Quotes(quote_time) ==
    {[timestamp |-> quote_time, cross |-> m, price |-> p] :
        m \in Markets, p \in Prices}

\* unmarshal_message(forex_byte_data): the quotes of a well-formed datagram
Messages(recv_time) ==
    UNION {[1..n -> Quotes(recv_time - lag)] : n \in 1..MaxQuotes, lag \in Lags}

\* A network that delays datagrams: a quote is stamped when it leaves the
\* provider and reaches the subscriber a delay of Delays ticks later: at once,
\* one second later (which math.isclose still takes for the time of receipt),
\* or two seconds later (out of sequence).  Datagrams may overtake one another.
DelayedMarkets == {<<"USD", "EUR">>, <<"EUR", "USD">>, <<"EUR", "GBP">>}
Delays == {0, 2, 4}

DelayedMessages(recv_time) ==
    UNION {[1..n -> {[timestamp |-> recv_time - delay, cross |-> m, price |-> p] :
                        m \in DelayedMarkets, p \in Prices}] :
              n \in 1..MaxQuotes, delay \in Delays}

Init ==
    /\ graph = EmptyGraph
    /\ market_times = <<>>
    /\ resubscribe = TRUE
    /\ now = 0
    /\ pc = "run"
    /\ message = <<>>
    /\ start_time = 0
    /\ result = NoResult
    /\ steps = <<>>
    /\ received = 0

\* run: while self.resubscribe: subscribe_to_forex_provider(); listen_for_quotes()
Subscribe ==
    /\ pc = "run"
    /\ resubscribe
    /\ pc' = "listen"
    /\ UNCHANGED <<graph, market_times, resubscribe, now, message, start_time,
                   result, steps, received>>

RunExit ==
    /\ pc = "run"
    /\ ~resubscribe
    /\ pc' = "done"
    /\ UNCHANGED <<graph, market_times, resubscribe, now, message, start_time,
                   result, steps, received>>

\* listen_for_quotes: the while condition fails because resubscribe is False
ListenExit ==
    /\ pc = "listen"
    /\ ~resubscribe
    /\ pc' = "run"
    /\ UNCHANGED <<graph, market_times, resubscribe, now, message, start_time,
                   result, steps, received>>

\* listen_for_quotes: the while condition fails because time.time() >= end_time.
\* SUBSCRIPTION_TIME (600 s) is far beyond the horizon of the model's clock, so
\* the expiry is an event of the environment.
SubscriptionExpired ==
    /\ pc = "listen"
    /\ resubscribe
    /\ pc' = "run"
    /\ UNCHANGED <<graph, market_times, resubscribe, now, message, start_time,
                   result, steps, received>>

\* self.listener.recv returns a datagram after `wait` ticks, over the network
\* of Spec or over the delaying one
RecvFrom(delayed) ==
    /\ pc = "listen"
    /\ resubscribe
    /\ received < MaxBatches
    /\ \E wait \in Waits :
          /\ wait < MESSAGE_TIMEOUT
          /\ now' = now + wait
          /\ start_time' = now + wait
          /\ \E msg \in (IF delayed THEN DelayedMessages(now + wait)
                                     ELSE Messages(now + wait)) : message' = msg
    /\ received' = received + 1
    /\ pc' = "process"
    /\ steps' = <<>>
    /\ result' = NoResult
    /\ UNCHANGED <<graph, market_times, resubscribe>>

Recv == RecvFrom(FALSE)

\* A timeout handler that reports the timeout and keeps the subscription alive
RecvTimeout_keeps_listening ==
    /\ pc = "listen"
    /\ resubscribe
    /\ now' = now + MESSAGE_TIMEOUT
    /\ UNCHANGED <<graph, market_times, resubscribe, pc, message, start_time,
                   result, steps, received>>

\* self.listener.recv times out: shut down
RecvTimeout ==
    /\ pc = "listen"
    /\ resubscribe
    /\ now' = now + MESSAGE_TIMEOUT
    /\ resubscribe' = FALSE
    /\ UNCHANGED <<graph, market_times, pc, message, start_time, result, steps,
                   received>>

\* self.process_quote(forex_byte_data, start_time.timestamp()); an exception
\* of build_arbitrage_sequence or print_arbitrage_sequence is caught nowhere
ProcessQuote ==
    /\ pc = "process"
    /\ LET r == process_quote(graph, market_times, message, start_time)
       IN  /\ graph' = r.graph
           /\ market_times' = r.market_times
           /\ result' = r.result
           /\ steps' = steps \o <<"apply", "query">>
                         \o (IF r.result.negative_cycle # NoEdge
                             THEN <<"report">> ELSE <<>>)
           /\ pc' = IF r.result.error # "" THEN "crashed" ELSE "evict"
    /\ UNCHANGED <<resubscribe, now, message, start_time, received>>

\* self.remove_stale_quotes(); a KeyError of remove_edge is caught nowhere
RemoveStaleQuotes ==
    /\ pc = "evict"
    /\ LET r == remove_stale_quotes(graph, market_times, now)
       IN  /\ graph' = r.graph
           /\ market_times' = r.market_times
           /\ steps' = Append(steps, "evict")
           /\ pc' = IF r.error # "" THEN "crashed" ELSE "listen"
    /\ result' = NoResult
    /\ message' = <<>>
    /\ UNCHANGED <<resubscribe, now, start_time, received>>

Next ==
    \/ Subscribe
    \/ RunExit
    \/ ListenExit
    \/ SubscriptionExpired
    \/ Recv
    \/ RecvTimeout
    \/ ProcessQuote
    \/ RemoveStaleQuotes

Spec == Init /\ [][Next]_vars

\* The subscriber is one sequential thread: once resubscribe is False the two
\* while conditions are evaluated next and nothing blocks them, so each loop
\* exit is taken when it stays enabled.  recv is left without fairness: the
\* provider may send for ever or never.
SpecLive == Spec /\ WF_vars(ListenExit) /\ WF_vars(RunExit)

----------------------------------------------------------------------------
(* SpecDelayed: the same loop on a network that delays datagrams (see      *)
(* DelayedMessages).                                                       *)

RecvDelayed == RecvFrom(TRUE)

NextDelayed ==
    \/ Subscribe
    \/ RunExit
    \/ ListenExit
    \/ SubscriptionExpired
    \/ RecvDelayed
    \/ RecvTimeout
    \/ ProcessQuote
    \/ RemoveStaleQuotes

SpecDelayed == Init /\ [][NextDelayed]_vars

----------------------------------------------------------------------------
(* Claims on shortest_paths (SpecBF) *)

Returned == result.kind = "paths"

\* C1: if shortest_paths(start, tolerance) returns a witness edge, the graph
\* holds a cycle of negative total weight reachable from start (so on a graph
\* without one the witness is None), whatever the insertion order and the
\* tolerance >= 0.
C1_WitnessMeansNegativeCycle ==
    (Returned /\ result.negative_cycle # NoEdge)
        => NegativeCycleReachable(graph, MY_CURRENCY)

\* A witness edge is returned under a positive tolerance on a three-vertex
\* graph whose vertex order does not start with the start vertex.
C1_Witness ==
    /\ Returned
    /\ result.negative_cycle # NoEdge
    /\ result.tolerance > 0
    /\ Len(graph) = 3
    /\ graph[1][1] # MY_CURRENCY

\* C9 as claimed: without a negative cycle reachable from start, the returned
\* distances equal the true shortest-path distances (hence are the same for
\* every insertion order), for every tolerance.
C9_DistancesAreTrue ==
    (Returned /\ ~NegativeCycleReachable(graph, MY_CURRENCY))
        => result.distance = TrueDistances(graph, MY_CURRENCY)

\* C9 as amended: the equality holds for tolerance 0; for a positive tolerance
\* a returned distance is never below the true one and exceeds it by at most
\* tolerance times the number of passes.
C9_DistancesWithinTolerance ==
    (Returned /\ ~NegativeCycleReachable(graph, MY_CURRENCY))
        => LET exact == TrueDistances(graph, MY_CURRENCY)
           IN  /\ DOMAIN result.distance = DOMAIN exact
               /\ \A v \in DOMAIN exact :
                      LET d == result.distance[v]
                          t == exact[v]
                      IN  /\ (d = Inf) <=> (t = Inf)
                          /\ t <= d
                          /\ d # Inf =>
                                 d <= t + result.tolerance * Max(NumPasses(graph), 0)
                          /\ result.tolerance = 0 => d = t

\* With tolerance 0, a vertex is reached over two edges although a direct
\* edge from start exists, in a graph that has a (non-negative) cycle.
C9_Witness ==
    /\ Returned
    /\ result.tolerance = 0
    /\ ~NegativeCycleReachable(graph, MY_CURRENCY)
    /\ \E v \in DOMAIN result.predecessor :
           /\ result.predecessor[v] \notin {None, MY_CURRENCY}
           /\ IsEdge(graph, MY_CURRENCY, v)
    /\ \E k \in 2..3 : \E s \in DistinctSeqs(Vertices(graph), k) : IsCycle(graph, s)

----------------------------------------------------------------------------
(* Claims on the subscriber (Spec) *)

Last(s) == s[Len(s)]

\* process_quote has just run shortest_paths and got a witness edge
WitnessFound == Returned /\ result.negative_cycle # NoEdge

\* process_quote has printed an arbitrage
Reported == WitnessFound /\ result.error = ""

\* remove_stale_quotes has just run (to its end, or to an exception), at the
\* instant the datagram came in
Evicted == steps # <<>> /\ Last(steps) = "evict" /\ now = start_time

ReverseCross(m) == <<m[2], m[1]>>

\* C2: whenever process_quote reports an arbitrage, the sequence read as a
\* closed loop from the start currency has negative total weight in the graph.
C2_ReportedLoopIsNegative ==
    Reported =>
        /\ result.conversions[1] = MY_CURRENCY
        /\ IsCycle(graph, result.conversions)
        /\ CycleWeight(graph, result.conversions) < 0

\* C3: when the predecessor walk runs into a sub-cycle without start,
\* build_arbitrage_sequence ends without error and every consecutive pair of
\* the sequence, the wraparound included, is an edge of the graph.
C3_FallbackLoopUsesEdges ==
    (WitnessFound /\ result.fallback) =>
        /\ result.error = ""
        /\ result.conversions # <<>>
        /\ result.conversions[1] = MY_CURRENCY
        /\ IsCycle(graph, result.conversions)

\* The walk from predecessor[start] entered a sub-cycle of three currencies
\* without the start currency, and a sequence came back.
C3_Witness ==
    /\ WitnessFound
    /\ result.fallback
    /\ result.error = ""
    /\ \E s \in DistinctSeqs(DOMAIN result.predecessor \ {MY_CURRENCY}, 3) :
           /\ result.predecessor[s[1]] = s[2]
           /\ result.predecessor[s[2]] = s[3]
           /\ result.predecessor[s[3]] = s[1]

\* C4: whenever shortest_paths returns a witness edge, the start currency has
\* a predecessor, so build_arbitrage_sequence does not fail for lack of one.
C4_WitnessMeansStartHasPredecessor ==
    WitnessFound =>
        /\ MY_CURRENCY \in DOMAIN result.predecessor
        /\ result.predecessor[MY_CURRENCY] # None
        /\ result.error # "KeyError"

\* C5: for every datagram the loop applies the quotes, then evicts stale
\* edges, then runs the shortest-path query: no query before the eviction.
C5_QueryAfterEviction ==
    \A i \in DOMAIN steps :
        steps[i] = "query" => \E j \in 1..(i - 1) : steps[j] = "evict"

\* C6: an eviction removes both directed edges of every stale pair and deletes
\* the pair from the registry, and a second eviction with the same inputs
\* removes nothing: after remove_stale_quotes no registered pair is stale,
\* every edge left belongs to a registered pair, and running it again changes
\* neither graph nor registry.
C6_EvictionRemovesStalePairs ==
    Evicted =>
        /\ \A i \in DOMAIN market_times : now - market_times[i][2] <= IN_FORCE_TIME
        /\ \A u \in Vertices(graph), v \in Vertices(graph) :
               has_edge(graph, u, v) =>
                   DictHas(market_times, <<u, v>>) \/ DictHas(market_times, <<v, u>>)
        /\ remove_stale_quotes(graph, market_times, now) =
               [graph |-> graph, market_times |-> market_times,
                remove_list |-> <<>>, error |-> ""]

\* C7: the registry is keyed by the unordered pair: it never holds two
\* entries for the same two currencies.
C7_OneEntryPerPair ==
    \A i, j \in DOMAIN market_times :
        i # j => market_times[i][1] # ReverseCross(market_times[j][1])

\* C8: remove_stale_quotes never raises, also when an edge of a stale entry
\* is already gone, and it deletes every stale entry.
C8_EvictionNeverRaises ==
    Evicted =>
        /\ pc # "crashed"
        /\ \A i \in DOMAIN market_times : now - market_times[i][2] <= IN_FORCE_TIME

\* The datagram of C10: USD/EUR at r1 then EUR/USD at r2, one timestamp,
\* in force, applied to a graph that knows no other currency
C10_Case(r1, r2) ==
    /\ pc = "evict"
    /\ Returned
    /\ NegLog10(r1) + NegLog10(r2) < 0
    /\ message = <<[timestamp |-> start_time, cross |-> <<"USD", "EUR">>, price |-> r1],
                   [timestamp |-> start_time, cross |-> <<"EUR", "USD">>, price |-> r2]>>
    /\ Vertices(graph) = {"USD", "EUR"}

\* C10 as claimed: afterwards w(USD,EUR) = -log10(r1) and w(EUR,USD) =
\* -log10(r2), and shortest_paths('USD', 1e-6) returns a witness edge.
C10_BothQuotesKept ==
    \A r1 \in Prices, r2 \in Prices :
        C10_Case(r1, r2) =>
            /\ get_edge_weight(graph, "USD", "EUR") = NegLog10(r1)
            /\ get_edge_weight(graph, "EUR", "USD") = NegLog10(r2)
            /\ result.negative_cycle # NoEdge

\* C10 as amended: the second quote overwrites both edges, w(EUR,USD) =
\* -log10(r2) and w(USD,EUR) = +log10(r2); the round trip sums to zero and
\* shortest_paths('USD', 1e-6) returns no witness.
C10_LastQuoteWins ==
    \A r1 \in Prices, r2 \in Prices :
        C10_Case(r1, r2) =>
            /\ get_edge_weight(graph, "EUR", "USD") = NegLog10(r2)
            /\ get_edge_weight(graph, "USD", "EUR") = -1 * NegLog10(r2)
            /\ CycleWeight(graph, <<"USD", "EUR">>) = 0
            /\ result.negative_cycle = NoEdge

\* The case of the text: r1 = 0.90, r2 = 1.20
C10_Witness == C10_Case(90, 120)

\* The clean cycles of a predecessor map through start, in forward trading
\* order from start: each element is the predecessor of the next, and the
\* last is the predecessor of start; no vertex repeats
CleanCycles(pred, start) ==
    {s \in UNION {DistinctSeqs(DOMAIN pred, k) : k \in 2..Cardinality(DOMAIN pred)} :
        /\ s[1] = start
        /\ \A i \in 1..(Len(s) - 1) : pred[s[i + 1]] = s[i]
        /\ pred[start] = s[Len(s)]}

\* C11 as claimed: on a predecessor map with a clean cycle through start,
\* build_arbitrage_sequence returns the other vertices of the cycle in forward
\* trading order and start is not an element: [B, C] for A -> B -> C -> A.
C11_StartLeftImplicit ==
    WitnessFound =>
        \A s \in CleanCycles(result.predecessor, MY_CURRENCY) :
            /\ result.error = ""
            /\ result.conversions = Tail(s)
            /\ ~InSeq(MY_CURRENCY, result.conversions)

\* C11 as amended: the sequence is the whole cycle in forward trading order
\* with start as its first element: [A, B, C] for A -> B -> C -> A.
C11_StartComesFirst ==
    WitnessFound =>
        \A s \in CleanCycles(result.predecessor, MY_CURRENCY) :
            /\ result.error = ""
            /\ ~result.fallback
            /\ result.conversions = s
            /\ Tail(result.conversions) = Tail(s)
            /\ ~InSeq(MY_CURRENCY, Tail(result.conversions))

\* A witness was returned with a clean cycle of three currencies through start
C11_Witness ==
    /\ WitnessFound
    /\ \E s \in CleanCycles(result.predecessor, MY_CURRENCY) : Len(s) = 3

----------------------------------------------------------------------------
(* Further claims on shortest_paths (SpecBF) *)

\* Edge (u, v) closes a walk of negative total weight: v leads back to u,
\* either along a simple path that makes a negative cycle with the edge, or
\* through a negative cycle that v reaches and that reaches u
OnNegativeClosedWalk(g, u, v) ==
    /\ IsEdge(g, u, v)
    /\ \/ \E s \in SimplePathsFrom(g, v) :
              s[Len(s)] = u /\ PathWeight(g, s) + Weight(g, u, v) < 0
       \/ \E s \in NegativeCycles(g) :
              s[1] \in ReachableFrom(g, v) /\ u \in ReachableFrom(g, s[1])

\* C12: whenever shortest_paths returns a witness edge (u, v), that edge lies
\* on a negative cycle: a path leads from v back to u and the loop it closes
\* with (u, v) has negative total weight.
C12_WitnessEdgeOnNegativeCycle ==
    (Returned /\ result.negative_cycle # NoEdge)
        => OnNegativeClosedWalk(graph, result.negative_cycle[1],
                                result.negative_cycle[2])

----------------------------------------------------------------------------
(* Claims on the graph store (SpecStore) *)

\* The (weight, time) of edge u -> v, when it is there
EdgeData(g, u, v) == DictGet(DictGet(g, u), v)

EdgeTime(g, u, v) == EdgeData(g, u, v)[TIME_IDX]

\* Number of entries the adjacency of u holds for v
EdgeCount(g, u, v) ==
    IF ~DictHas(g, u) THEN 0
    ELSE Cardinality({j \in DOMAIN DictGet(g, u) : DictGet(g, u)[j][1] = v})

\* The call that has just returned
Added == result.kind = "add_edge"
EvictedEdges == result.kind = "remove_stale_edges"

\* C13: remove_stale_edges(t, maxAge) removes an edge if and only if
\* t - insertedAt > maxAge: older edges are gone afterwards, edges of age up to
\* and including maxAge stay with their weight and timestamp, no edge appears
\* and no vertex is removed: every vertex keeps its entry, and its adjacency
\* afterwards is what it held before less the entries older than maxAge.
C13_EvictsExactlyOlderEdges ==
    [][EvictedEdges' =>
        LET Kept(item) ==
                result'.time_to_compare - item[2][TIME_IDX] <= result'.time_limit
        IN  /\ DOMAIN graph' = DOMAIN graph
            /\ \A i \in DOMAIN graph :
                   /\ graph'[i][1] = graph[i][1]
                   /\ graph'[i][2] = SelectSeq(graph[i][2], Kept)
      ]_vars

\* An eviction removed an edge and kept one whose age is exactly the limit
C13_Witness ==
    /\ EvictedEdges
    /\ result.remove_list # <<>>
    /\ \E u \in BFVertices, v \in BFVertices :
           /\ has_edge(graph, u, v)
           /\ result.time_to_compare - EdgeTime(graph, u, v) = result.time_limit

\* C14: the list remove_stale_edges returns holds exactly one entry, (u, v)
\* or (v, u), for every pair whose two edges the call removed, and the entry
\* of every removed edge whose reverse was not removed; nothing else.
C14_RemovedPairsListedOnce ==
    [][EvictedEdges' =>
        LET removed == {e \in BFVertices \X BFVertices :
                           has_edge(graph, e[1], e[2]) /\ ~has_edge(graph', e[1], e[2])}
            list == result'.remove_list
            Listed(e) == Cardinality({i \in DOMAIN list : list[i][1] = e})
        IN  /\ \A e \in removed :
                  IF <<e[2], e[1]>> \in removed
                  THEN Listed(e) + Listed(<<e[2], e[1]>>) = 1
                  ELSE Listed(e) = 1
            /\ \A i \in DOMAIN list : list[i][1] \in removed
      ]_vars

\* C15: every currency that is or ever was an endpoint of an added edge has an
\* entry in the outer mapping: add_edge leaves both endpoints with an entry,
\* no call ever drops an entry, and every adjacency names entered currencies
\* only, so the lookup self.graph[c] of such a currency never fails.
C15_SeenCurrenciesKeepEntry ==
    [][/\ DictKeys(graph) \subseteq DictKeys(graph')
       /\ Added' => {result'.from_vertex, result'.to_vertex} \subseteq DictKeys(graph')
       /\ \A i \in DOMAIN graph' : DictKeys(graph'[i][2]) \subseteq DictKeys(graph')
      ]_vars

\* After an eviction a currency that was an endpoint has an entry and no edge
C15_Witness ==
    /\ EvictedEdges
    /\ result.remove_list # <<>>
    /\ \E u \in DictKeys(graph) :
           /\ DictGet(graph, u) = <<>>
           /\ \A v \in DictKeys(graph) : ~has_edge(graph, v, u)

\* C16: after add_edge(u, v, w, t), get_edge_weight(u, v) returns w, also when
\* the edge was there with another weight and timestamp: it then carries w and
\* t, the graph holds one edge for (u, v), and every other edge is unchanged
\* (the adjacency of every other vertex is the same, and so is that of u once
\* the entry for v is taken out).
C16_AddEdgeOverwrites ==
    [][Added' =>
        LET u == result'.from_vertex
            v == result'.to_vertex
            Adjacency(g, a) == IF DictHas(g, a) THEN DictGet(g, a) ELSE <<>>
        IN  /\ has_edge(graph', u, v)
            /\ get_edge_weight(graph', u, v) = result'.weight
            /\ EdgeData(graph', u, v) = <<result'.weight, result'.time>>
            /\ EdgeCount(graph', u, v) = 1
            /\ \A a \in BFVertices \ {u} : Adjacency(graph', a) = Adjacency(graph, a)
            /\ DictDel(Adjacency(graph', u), v) = DictDel(Adjacency(graph, u), v)
      ]_vars

\* add_edge has overwritten an edge while the graph holds another edge
C16_Witness ==
    /\ Added
    /\ result.had_edge
    /\ NumEdges(graph) >= 2

----------------------------------------------------------------------------
(* Claims on the market-time registry and the eviction (SpecDelayed, Spec) *)

\* C17: for each currency pair, the time stored in the registry never
\* decreases while the entry exists, whatever datagrams are received.
C17_MarketTimeNeverDecreases ==
    [][\A i \in DOMAIN market_times :
          LET market == market_times[i][1]
          IN  DictHas(market_times', market) =>
                  DictGet(market_times', market) >= market_times[i][2]
      ]_vars

\* C18: after any sequence of quote applications and evictions the graph is
\* symmetric: a -> b is an edge if and only if b -> a is, and then
\* weight(a, b) = -weight(b, a) and both carry the same timestamp.
C18_GraphSymmetric ==
    \A a \in Vertices(graph), b \in Vertices(graph) :
        has_edge(graph, a, b) =>
            /\ has_edge(graph, b, a)
            /\ get_edge_weight(graph, a, b) = -1 * get_edge_weight(graph, b, a)
            /\ EdgeTime(graph, a, b) = EdgeTime(graph, b, a)

\* An eviction has completed that took a currency's last edges away while
\* other edges stay
C18_Witness ==
    /\ pc = "listen"
    /\ steps # <<>>
    /\ Last(steps) = "evict"
    /\ \E a \in Vertices(graph) : DictGet(graph, a) = <<>>
    /\ \E a \in Vertices(graph), b \in Vertices(graph) : has_edge(graph, a, b)

\* C19: remove_stale_quotes removes a directed edge only if the edge's own
\* timestamp is older than the in-force window at eviction time, also when
\* quotes name the same two currencies in both orders.
C19_OnlyStaleEdgesRemoved ==
    [][\A a \in Vertices(graph), b \in Vertices(graph) :
          (has_edge(graph, a, b) /\ ~has_edge(graph', a, b))
              => now - EdgeTime(graph, a, b) > IN_FORCE_TIME
      ]_vars

----------------------------------------------------------------------------
(* Claims on negative cycle detection (SpecBF) *)

\* C20: with tolerance 0, if the graph holds a negative cycle reachable from
\* start, shortest_paths returns a witness edge, whatever the insertion order.
C20_NegativeCycleIsDetected ==
    (Returned /\ result.tolerance = 0 /\ NegativeCycleReachable(graph, MY_CURRENCY))
        => result.negative_cycle # NoEdge

\* Tolerance 0, a negative cycle of three vertices reachable from start, and
\* a vertex order that does not begin with start
C20_Witness ==
    /\ Returned
    /\ result.tolerance = 0
    /\ \E s \in NegativeCycles(graph) :
           Len(s) = 3 /\ s[1] \in ReachableFrom(graph, MY_CURRENCY)
    /\ graph[1][1] # MY_CURRENCY
    /\ result.negative_cycle # NoEdge

----------------------------------------------------------------------------
(* Claims on the predecessor map (SpecBF) *)

NoWitness == Returned /\ result.negative_cycle = NoEdge

\* Following predecessors from v reaches start without repeating a vertex
ChainToStart(pred, start, v) ==
    \E k \in 1..(Cardinality(DOMAIN pred) + 1) :
        \E s \in DistinctSeqs(DOMAIN pred \cup {start}, k) :
            /\ s[1] = start
            /\ s[k] = v
            /\ \A i \in 1..(k - 1) : s[i + 1] \in DOMAIN pred /\ pred[s[i + 1]] = s[i]

\* The root of the tree: distance[start] = 0 and predecessor[start] is None
RootedAtStart ==
    /\ result.distance[MY_CURRENCY] = 0
    /\ MY_CURRENCY \in DOMAIN result.predecessor
    /\ result.predecessor[MY_CURRENCY] = None

\* Every other vertex of finite distance hangs off an edge from its
\* predecessor, and its predecessors lead to start without a repeat
ReachedHangOffStart ==
    \A v \in DOMAIN result.distance \ {MY_CURRENCY} :
        result.distance[v] # Inf =>
            /\ v \in DOMAIN result.predecessor
            /\ result.predecessor[v] # None
            /\ IsEdge(graph, result.predecessor[v], v)
            /\ ChainToStart(result.predecessor, MY_CURRENCY, v)

\* Every vertex unreachable from start has distance +infinity and no predecessor
UnreachedAreBlank ==
    LET reachable == ReachableFrom(graph, MY_CURRENCY)
    IN  \A v \in Vertices(graph) \ reachable :
            result.distance[v] = Inf /\ result.predecessor[v] = None

\* C21 as claimed: when shortest_paths returns no witness the result is a tree
\* rooted at start: distance[start] = 0 and predecessor[start] is None; every
\* other vertex of finite distance has a predecessor joined to it by an edge
\* and its predecessors lead to start without a repeat; every vertex
\* unreachable from start has distance +infinity and predecessor None.
C21_TreeRootedAtStart ==
    NoWitness => (RootedAtStart /\ ReachedHangOffStart /\ UnreachedAreBlank)

\* C21 as amended: the same, except that predecessor[start] is None only when
\* start is a vertex of the graph; when it is not, the predecessor map has no
\* entry for start (the distance map still has distance[start] = 0).
C21_TreeRootedAtKnownStart ==
    NoWitness =>
        /\ result.distance[MY_CURRENCY] = 0
        /\ DOMAIN result.predecessor = Vertices(graph)
        /\ DOMAIN result.distance = Vertices(graph) \cup {MY_CURRENCY}
        /\ MY_CURRENCY \in Vertices(graph) => result.predecessor[MY_CURRENCY] = None
        /\ ReachedHangOffStart
        /\ UnreachedAreBlank

\* No witness under a positive tolerance, and a vertex two edges deep in the
\* tree although the graph holds a cycle
C21_Witness ==
    /\ NoWitness
    /\ result.tolerance > 0
    /\ \E v \in DOMAIN result.predecessor :
           result.predecessor[v] \notin {None, MY_CURRENCY}
    /\ \E k \in 2..3 : \E s \in DistinctSeqs(Vertices(graph), k) : IsCycle(graph, s)

----------------------------------------------------------------------------
(* Shutdown on an idle timeout (SpecLive)                                  *)

\* A receive that ends after MESSAGE_TIMEOUT with no batch delivered
ReceiveTimesOut ==
    /\ pc = "listen"
    /\ resubscribe
    /\ now' = now + MESSAGE_TIMEOUT
    /\ received' = received

\* C22: once a receive times out the subscriber shuts down: resubscribe becomes
\* false and stays false; from then on the only steps are the exit of the
\* listen loop and the exit of the run loop, so no subscribe message is sent
\* and no batch is received, processed or evicted (graph and market_times are
\* frozen); and both loops do exit: the subscriber ends in "done".
C22_TimeoutShutsDown ==
    /\ [][ReceiveTimesOut => ~resubscribe']_vars
    /\ [][~resubscribe =>
            /\ ~resubscribe'
            /\ ListenExit \/ RunExit
            /\ ~Subscribe /\ ~Recv /\ ~ProcessQuote /\ ~RemoveStaleQuotes
            /\ graph' = graph /\ market_times' = market_times
            /\ received' = received]_vars
    /\ [](~resubscribe => pc \in {"listen", "run", "done"})
    /\ (~resubscribe ~> [](pc = "done" /\ ~resubscribe))

\* The subscriber has shut down after a timeout that followed a processed
\* batch whose edges are still in the graph
C22_Witness ==
    /\ pc = "done"
    /\ ~resubscribe
    /\ received > 0
    /\ now >= MESSAGE_TIMEOUT
    /\ NumEdges(graph) > 0

====
